---- MODULE Spec2Model ----
(***************************************************************************)
(* EditScheduleModal (client/src/components/schedule/EditScheduleModal.tsx) *)
(* as a state machine: the props the parent passes, the component's local  *)
(* state (selectedActivity, the react-hook-form values and errors, the     *)
(* activity-type query) and the callbacks it fires.                        *)
(***************************************************************************)
EXTENDS Integers, Sequences, FiniteSets, TLC

\* ---------------------------------------------------------------- bounds
MaxProfessionalId == 2      \* professional ids are 1..MaxProfessionalId
MaxOptions == 2             \* longest activity-type list the server returns
CallCap == 2                \* the per-cycle call counters saturate here

\* ------------------------------------------------------- values and props
Sentinel == "disponivel"

WeekDays == {"segunda", "terca"}

\* a nullable prop is a record with a `present` flag (null: present = FALSE)
NoProfessional == [present |-> FALSE, id |-> 0]
Professionals ==
    {NoProfessional} \cup {[present |-> TRUE, id |-> i] : i \in 1..MaxProfessionalId}

NoTimeSlot == [present |-> FALSE, startTime |-> "", endTime |-> ""]
TimeSlots ==
    {NoTimeSlot, [present |-> TRUE, startTime |-> "14:15", endTime |-> "15:45"]}

NoActivity == [present |-> FALSE, atividade |-> "", local |-> "", observacoes |-> ""]
CurrentActivities ==
    { NoActivity,
      [present |-> TRUE, atividade |-> "consulta", local |-> "Room 2", observacoes |-> "obs"],
      [present |-> TRUE, atividade |-> "",         local |-> "Room 2", observacoes |-> ""] }

\* what the user can type into the inputs
TimeInputs == {"", "16:00"}
LocationInputs == {"Sala 1"}
NotesInputs == {""}

\* the codes of the activity types the server knows, in the server's order;
\* an answer is a prefix of it
ServerCatalogue == <<"aula", "", "consulta">>
Min(a, b) == IF a < b THEN a ELSE b
ServerAnswers ==
    {SubSeq(ServerCatalogue, 1, Min(n, Len(ServerCatalogue))) : n \in 1..MaxOptions}

Range(s) == {s[i] : i \in DOMAIN s}

VARIABLES
    isOpen, professional, timeSlot, currentActivity, weekday,  \* props
    selectedActivity,     \* useState
    form,                 \* useForm: the field values
    errors,               \* useForm: formState.errors, the fields in error
    isSubmitted,          \* useForm: formState.isSubmitted
    queryStatus,          \* useQuery: "pending", "success" or "error"
    activityTypes,        \* useQuery: data, [] while there is none
    calls,                \* the callbacks the last handler invoked, in order
    savedPayload,         \* the argument of onSave in `calls`
    saveCalls, closeCalls,\* onSave / onClose calls since the dialog opened
    everOpened,           \* the dialog has been opened at least once
    edits,                \* per field: what the user entered since the reset
    lastOp                \* what ran last: "reset" (a render that ran the
                          \* effect), "submit", "cancel" or "other"

vars == << isOpen, professional, timeSlot, currentActivity, weekday,
           selectedActivity, form, errors, isSubmitted, queryStatus,
           activityTypes, calls, savedPayload, saveCalls, closeCalls, everOpened, edits, lastOp >>

props == << isOpen, professional, timeSlot, currentActivity, weekday >>
query == << queryStatus, activityTypes >>

\* ------------------------------------------------------------ pure parts
\* JavaScript's `s || d` on strings: the empty string is falsy
OrElse(s, d) == IF s = "" THEN d ELSE s

\* currentActivity?.atividade || "disponivel"
ActivityValue(ca) == IF ca.present THEN OrElse(ca.atividade, Sentinel) ELSE Sentinel

\* the object handed to reset() / defaultValues
DefaultValues(p, t, ca, w) ==
    [ professionalId |-> IF p.present THEN p.id ELSE 0,
      weekday        |-> w,
      startTime      |-> IF t.present THEN t.startTime ELSE "",
      endTime        |-> IF t.present THEN t.endTime ELSE "",
      activityCode   |-> ActivityValue(ca),
      location       |-> IF ca.present THEN ca.local ELSE "",
      notes          |-> IF ca.present THEN ca.observacoes ELSE "" ]

NoPayload ==
    [ professionalId |-> 0, weekday |-> "", startTime |-> "", endTime |-> "",
      activityCode |-> "", location |-> "", notes |-> "" ]

EditableFields == {"startTime", "endTime", "activityCode", "location", "notes"}
NoEdit == [edited |-> FALSE, value |-> ""]
NoEdits == [f \in EditableFields |-> NoEdit]

\* scheduleFormSchema: the fields of `data` that fail validation
FieldErrors(data) ==
    {f \in {"startTime", "endTime", "activityCode"} : data[f] = ""}
      \cup (IF data.professionalId > 0 THEN {} ELSE {"professionalId"})
      \cup (IF data.weekday \in WeekDays THEN {} ELSE {"weekday"})

\* the items of the Select: "disponivel" first, then the fetched types
SelectItems == <<Sentinel>> \o activityTypes

\* a submission that sends the seeded values instead of the form's
SubmittedData_Seeded(data, selected) ==
    [DefaultValues(professional, timeSlot, currentActivity, weekday)
        EXCEPT !.activityCode = selected]

\* onSubmit: { ...data, activityCode: selectedActivity }
SubmittedData(data, selected) == [data EXCEPT !.activityCode = selected]

Inc(n) == Min(n + 1, CallCap)

\* ---------------------------------------------------------------- state
Init ==
    /\ isOpen = FALSE
    /\ professional \in Professionals
    /\ timeSlot \in TimeSlots
    /\ currentActivity \in CurrentActivities
    /\ weekday \in WeekDays
    /\ selectedActivity = ActivityValue(currentActivity)
    /\ form = DefaultValues(professional, timeSlot, currentActivity, weekday)
    /\ errors = {}
    /\ isSubmitted = FALSE
    /\ queryStatus = "pending"
    /\ activityTypes = <<>>
    /\ calls = <<>>
    /\ savedPayload = NoPayload
    /\ saveCalls = 0
    /\ closeCalls = 0
    /\ everOpened = FALSE
    /\ edits = NoEdits
    /\ lastOp = "other"

NoCallback ==
    /\ calls' = <<>>
    /\ savedPayload' = NoPayload
    /\ UNCHANGED << saveCalls, closeCalls >>

\* a reset that leaves the notes out of the object it hands to reset()
FormResetEffect_KeepNotes ==
    IF isOpen'
    THEN /\ selectedActivity' = ActivityValue(currentActivity')
         /\ form' = [DefaultValues(professional', timeSlot', currentActivity', weekday')
                        EXCEPT !.notes = form.notes]
         /\ errors' = {}
         /\ isSubmitted' = FALSE
         /\ edits' = NoEdits
    ELSE UNCHANGED << selectedActivity, form, errors, isSubmitted, edits >>

\* a reset that leaves the hidden fields out of the object it hands to reset()
FormResetEffect_KeepHidden ==
    IF isOpen'
    THEN /\ selectedActivity' = ActivityValue(currentActivity')
         /\ form' = [DefaultValues(professional', timeSlot', currentActivity', weekday')
                        EXCEPT !.professionalId = form.professionalId,
                               !.weekday = form.weekday]
         /\ errors' = {}
         /\ isSubmitted' = FALSE
         /\ edits' = NoEdits
    ELSE UNCHANGED << selectedActivity, form, errors, isSubmitted, edits >>

\* a reset without the setSelectedActivity call
FormResetEffect_NoSetSelected ==
    IF isOpen'
    THEN /\ UNCHANGED selectedActivity
         /\ form' = DefaultValues(professional', timeSlot', currentActivity', weekday')
         /\ errors' = {}
         /\ isSubmitted' = FALSE
         /\ edits' = NoEdits
    ELSE UNCHANGED << selectedActivity, form, errors, isSubmitted, edits >>

\* the useEffect, run after a render with the primed props
FormResetEffect ==
    IF isOpen'
    THEN /\ selectedActivity' = ActivityValue(currentActivity')
         /\ form' = DefaultValues(professional', timeSlot', currentActivity', weekday')
         /\ errors' = {}
         /\ isSubmitted' = FALSE
         /\ edits' = NoEdits
    ELSE UNCHANGED << selectedActivity, form, errors, isSubmitted, edits >>

\* the parent renders the closed dialog open, with the props of the cell
ParentOpen(p, t, ca, w) ==
    /\ ~isOpen
    /\ isOpen' = TRUE
    /\ professional' = p /\ timeSlot' = t /\ currentActivity' = ca /\ weekday' = w
    /\ FormResetEffect
    /\ calls' = <<>> /\ savedPayload' = NoPayload
    /\ saveCalls' = 0 /\ closeCalls' = 0
    /\ everOpened' = TRUE
    /\ lastOp' = "reset"
    /\ UNCHANGED query

\* the parent re-renders the open dialog with other props
ParentPropsChange(p, t, ca, w) ==
    /\ isOpen
    /\ professional' = p /\ timeSlot' = t /\ currentActivity' = ca /\ weekday' = w
    /\ UNCHANGED isOpen
    /\ FormResetEffect
    /\ NoCallback
    /\ lastOp' = "reset"
    /\ UNCHANGED << query, everOpened >>

\* the user types into a registered input; useForm is left at its default
\* modes, so once a submission was attempted the changed field is validated
\* again and its error set or cleared
EditField(f, v) ==
    /\ isOpen
    /\ form' = [form EXCEPT ![f] = v]
    /\ errors' = IF isSubmitted
                 THEN (errors \ {f}) \cup (FieldErrors(form') \cap {f})
                 ELSE errors
    /\ edits' = [edits EXCEPT ![f] = [edited |-> TRUE, value |-> v]]
    /\ NoCallback
    /\ lastOp' = "other"
    /\ UNCHANGED << props, query, selectedActivity, isSubmitted, everOpened >>

\* a handler without the setValue call
handleActivityChange_NoSetValue(value) ==
    /\ isOpen
    /\ value \in Range(SelectItems)
    /\ selectedActivity' = value
    /\ UNCHANGED form
    /\ edits' = [edits EXCEPT !.activityCode = [edited |-> TRUE, value |-> value]]
    /\ NoCallback
    /\ lastOp' = "other"
    /\ UNCHANGED << props, query, errors, isSubmitted, everOpened >>

handleActivityChange(value) ==
    /\ isOpen
    /\ value \in Range(SelectItems)
    /\ selectedActivity' = value
    /\ form' = [form EXCEPT !.activityCode = value]
    /\ edits' = [edits EXCEPT !.activityCode = [edited |-> TRUE, value |-> value]]
    /\ NoCallback
    /\ lastOp' = "other"
    /\ UNCHANGED << props, query, errors, isSubmitted, everOpened >>

\* the parent's onClose handler closes the dialog
onClose == isOpen' = FALSE

\* an onSubmit without the onClose call
onSubmit_NoClose(data) ==
    /\ savedPayload' = SubmittedData(data, selectedActivity)
    /\ calls' = <<"onSave">>
    /\ saveCalls' = Inc(saveCalls)
    /\ UNCHANGED << closeCalls, isOpen >>

\* an onSubmit that saves twice
onSubmit_SaveTwice(data) ==
    /\ savedPayload' = SubmittedData(data, selectedActivity)
    /\ calls' = <<"onSave", "onSave", "onClose">>
    /\ saveCalls' = Inc(Inc(saveCalls))
    /\ closeCalls' = Inc(closeCalls)
    /\ onClose

onSubmit(data) ==
    /\ savedPayload' = SubmittedData(data, selectedActivity)
    /\ calls' = <<"onSave", "onClose">>
    /\ saveCalls' = Inc(saveCalls)
    /\ closeCalls' = Inc(closeCalls)
    /\ onClose

\* <form onSubmit={onSubmit}>: the form wired without handleSubmit
handleSubmit_NoValidation ==
    /\ isOpen
    /\ onSubmit(form)
    /\ errors' = {}
    /\ isSubmitted' = TRUE
    /\ lastOp' = "submit"
    /\ UNCHANGED << professional, timeSlot, currentActivity, weekday, query,
                    selectedActivity, form, everOpened, edits >>

\* <form onSubmit={handleSubmit(onSubmit)}>: validate, then onSubmit
handleSubmit ==
    /\ isOpen
    /\ IF FieldErrors(form) = {}
       THEN /\ onSubmit(form)
            /\ errors' = {}
       ELSE /\ errors' = FieldErrors(form)
            /\ NoCallback
            /\ UNCHANGED isOpen
    /\ isSubmitted' = TRUE
    /\ lastOp' = "submit"
    /\ UNCHANGED << professional, timeSlot, currentActivity, weekday, query,
                    selectedActivity, form, everOpened, edits >>

\* the Cancelar button and the Dialog's onOpenChange
Cancel ==
    /\ isOpen
    /\ calls' = <<"onClose">>
    /\ savedPayload' = NoPayload
    /\ closeCalls' = Inc(closeCalls)
    /\ onClose
    /\ lastOp' = "cancel"
    /\ UNCHANGED << professional, timeSlot, currentActivity, weekday, query,
                    selectedActivity, form, errors, isSubmitted, saveCalls,
                    everOpened, edits >>

\* a fetch whose answer drops a selection that is not among the options
FetchResolve_DropsSelection(answer) ==
    /\ queryStatus = "pending"
    /\ queryStatus' = "success"
    /\ activityTypes' = answer
    /\ selectedActivity' = IF selectedActivity \in Range(answer)
                           THEN selectedActivity ELSE Sentinel
    /\ form' = [form EXCEPT !.activityCode = selectedActivity']
    /\ NoCallback
    /\ lastOp' = "other"
    /\ UNCHANGED << props, errors, isSubmitted, everOpened, edits >>

FetchResolve(answer) ==
    /\ queryStatus = "pending"
    /\ queryStatus' = "success"
    /\ activityTypes' = answer
    /\ NoCallback
    /\ lastOp' = "other"
    /\ UNCHANGED << props, selectedActivity, form, errors, isSubmitted,
                    everOpened, edits >>

FetchFail ==
    /\ queryStatus = "pending"
    /\ queryStatus' = "error"
    /\ UNCHANGED activityTypes
    /\ NoCallback
    /\ lastOp' = "other"
    /\ UNCHANGED << props, selectedActivity, form, errors, isSubmitted,
                    everOpened, edits >>

Next ==
    \/ \E p \in Professionals, t \in TimeSlots, ca \in CurrentActivities, w \in WeekDays :
          ParentOpen(p, t, ca, w)
    \/ \E p \in Professionals, t \in TimeSlots, ca \in CurrentActivities, w \in WeekDays :
          ParentPropsChange(p, t, ca, w)
    \/ \E v \in TimeInputs : EditField("startTime", v)
    \/ \E v \in TimeInputs : EditField("endTime", v)
    \/ \E v \in LocationInputs : EditField("location", v)
    \/ \E v \in NotesInputs : EditField("notes", v)
    \/ \E v \in Range(ServerCatalogue) \cup {Sentinel} : handleActivityChange(v)
    \/ handleSubmit
    \/ Cancel
    \/ \E a \in ServerAnswers : FetchResolve(a)
    \/ FetchFail

Spec == Init /\ [][Next]_vars

\* ============================================================ properties
\* the validation rules, as the specification states them
ValidDraft(d) ==
    /\ d.startTime # ""
    /\ d.endTime # ""
    /\ d.activityCode # ""
    /\ d.professionalId > 0
    /\ d.weekday \in WeekDays

\* the draft the current props stand for
SeededDraft ==
    [ professionalId |-> IF professional = NoProfessional THEN 0 ELSE professional.id,
      weekday        |-> weekday,
      startTime      |-> IF timeSlot = NoTimeSlot THEN "" ELSE timeSlot.startTime,
      endTime        |-> IF timeSlot = NoTimeSlot THEN "" ELSE timeSlot.endTime,
      activityCode   |-> IF currentActivity = NoActivity \/ currentActivity.atividade = ""
                         THEN "disponivel" ELSE currentActivity.atividade,
      location       |-> IF currentActivity = NoActivity THEN "" ELSE currentActivity.local,
      notes          |-> IF currentActivity = NoActivity THEN ""
                         ELSE currentActivity.observacoes ]

callerProps == << professional, timeSlot, currentActivity, weekday >>

\* a step in which the reset is due: the dialog opens, or is open and gets
\* other props
ResetDue ==
    \/ ~isOpen /\ isOpen'
    \/ isOpen /\ isOpen' /\ callerProps' # callerProps

Saved == "onSave" \in Range(calls)

\* C1: a submission of a draft that passes validation calls onSave once, with
\* the selected activity as the payload's activityCode, and then onClose once
C1_ValidSubmitSavesThenCloses ==
    [][ (lastOp' = "submit" /\ isOpen /\ ValidDraft(form)) =>
          /\ calls' = <<"onSave", "onClose">>
          /\ savedPayload'.activityCode = selectedActivity
          /\ saveCalls' = saveCalls + 1
          /\ closeCalls' = closeCalls + 1 ]_vars

C1_Witness ==
    /\ lastOp = "submit"
    /\ calls = <<"onSave", "onClose">>
    /\ savedPayload.activityCode = "aula"
    /\ selectedActivity = "aula"

\* C2: a submission of a draft that fails validation calls neither onSave nor
\* onClose, leaves the dialog open and the draft as it was, and records an
\* error for each failing field; without a professional the seeded
\* professionalId is 0, which fails
C2_InvalidSubmitBlocked ==
    [][ /\ (isOpen' /\ professional' = NoProfessional) => ~ValidDraft(form')
        /\ (lastOp' = "submit" /\ isOpen /\ ~ValidDraft(form)) =>
              /\ calls' = <<>>
              /\ saveCalls' = saveCalls /\ closeCalls' = closeCalls
              /\ isOpen'
              /\ form' = form /\ selectedActivity' = selectedActivity
              /\ \A f \in {"startTime", "endTime", "activityCode"} :
                     form[f] = "" => f \in errors'
              /\ form.professionalId <= 0 => "professionalId" \in errors' ]_vars

C2_Witness ==
    /\ lastOp = "submit"
    /\ isOpen
    /\ calls = <<>>
    /\ professional = NoProfessional
    /\ errors = {"startTime", "activityCode", "professionalId"}

\* C3: whenever the dialog opens, or is open and gets other props, the whole
\* draft and the visible selection are the values the current props stand
\* for, and no user edit survives
C3_ResetFromCurrentProps ==
    [][ ResetDue =>
          /\ form' = SeededDraft'
          /\ selectedActivity' = SeededDraft'.activityCode
          /\ \A f \in EditableFields : ~edits'[f].edited ]_vars

C3_Witness ==
    /\ lastOp = "reset"
    /\ isOpen
    /\ isSubmitted = FALSE
    /\ currentActivity.atividade = "consulta"
    /\ selectedActivity = "consulta"
    /\ form.notes = "obs"
    /\ form.professionalId = 2

\* C4: the visible selection and the form's activityCode are always equal
C4_SelectionEqualsField == selectedActivity = form.activityCode

C4_Witness ==
    /\ edits.activityCode = [edited |-> TRUE, value |-> ""]
    /\ isOpen
    /\ selectedActivity = ""
    /\ form.activityCode = ""
    /\ currentActivity.atividade = "consulta"

\* C5: the activityCode of every payload handed to onSave is "disponivel" or
\* the code of one of the fetched activity types
C5_PayloadCodeIsAnOption ==
    Saved => savedPayload.activityCode \in {"disponivel"} \cup Range(activityTypes)

\* C6: between the dialog's opening and its closing onSave is called at most
\* once and onClose exactly once (a cancel: onClose alone; a valid submit:
\* each once), and onSave is never called while the dialog is closed
C6_OncePerCycle ==
    [][ /\ saveCalls' <= 1 /\ closeCalls' <= 1
        /\ isOpen' => saveCalls' = 0 /\ closeCalls' = 0
        /\ (~isOpen' /\ everOpened') => closeCalls' = 1
        /\ lastOp' = "cancel" => calls' = <<"onClose">> /\ saveCalls' = 0
        /\ (lastOp' = "submit" /\ ~isOpen') =>
              calls' = <<"onSave", "onClose">> /\ saveCalls' = 1
        /\ "onSave" \in Range(calls') => isOpen ]_vars

C6_Witness ==
    /\ lastOp = "cancel"
    /\ ~isOpen
    /\ closeCalls = 1
    /\ saveCalls = 0
    /\ isSubmitted

\* C7: each field of the payload is the user's last entry for it since the
\* reset, or the seeded value where the user entered nothing
C7_PayloadIsSeedPlusEdits ==
    Saved =>
      /\ \A f \in EditableFields :
            savedPayload[f] = IF edits[f].edited THEN edits[f].value ELSE SeededDraft[f]
      /\ (timeSlot # NoTimeSlot /\ currentActivity = NoActivity /\ edits = NoEdits) =>
            /\ savedPayload.activityCode = "disponivel"
            /\ savedPayload.startTime = timeSlot.startTime
            /\ savedPayload.endTime = timeSlot.endTime
            /\ savedPayload.location = "" /\ savedPayload.notes = ""

C7_Witness ==
    /\ Saved
    /\ edits.endTime = [edited |-> TRUE, value |-> "16:00"]
    /\ ~edits.location.edited /\ ~edits.activityCode.edited
    /\ savedPayload.activityCode = "consulta"
    /\ savedPayload.endTime = "16:00"
    /\ savedPayload.location = "Room 2"

C9_HiddenFieldsFollowProps ==
    [][ /\ (form'.professionalId # form.professionalId \/ form'.weekday # form.weekday)
              => ResetDue
        /\ "onSave" \in Range(calls') =>
              /\ professional' # NoProfessional
              /\ savedPayload'.professionalId = professional'.id
              /\ savedPayload'.weekday = weekday' ]_vars

C9_Witness ==
    /\ Saved
    /\ savedPayload.professionalId = 2
    /\ savedPayload.weekday = "terca"
    /\ edits.startTime.edited /\ edits.activityCode.edited

\* C10: every payload handed to onSave passes the validation rules; its
\* activityCode is not empty
C10_PayloadValid ==
    Saved => savedPayload.activityCode # "" /\ ValidDraft(savedPayload)

C10_Witness ==
    /\ Saved
    /\ currentActivity # NoActivity
    /\ currentActivity.atividade = ""
    /\ savedPayload.activityCode = "disponivel"
====
